---- MODULE Spec2Model ----
(***************************************************************************)
(* Model of src/src/Error/indexedDB.ts: the stage handlers of the error    *)
(* boundary (lines 3-46) and the storage access layer useIndexedDB (lines  *)
(* 102-261) running against the IndexedDB engine.                          *)
(*                                                                         *)
(* JavaScript is single threaded: the synchronous part of every call of    *)
(* the layer is one action; the engine's notification of a request         *)
(* (onsuccess / onerror) is a later action of its own.                     *)
(***************************************************************************)
EXTENDS Integers, Sequences, FiniteSets, TLC

\* ------------------------------------------------------------------ bounds
\* calls of the layer in one behaviour of Spec
MaxCalls == 1
\* calls of the layer in one behaviour of SpecSchema
MaxSchemaCalls == 2
\* calls of the layer in one behaviour of SpecData
MaxDataCalls == 3
\* calls of the layer in one behaviour of SpecRead
MaxReadCalls == 1
\* record keys are 1..MaxKey
MaxKey == 2

\* ------------------------------------------------------------------ values
NULL == "null"
UNDEFINED == "undefined"
\* the key `undefined` (an optional key argument that was not given)
NoKey == 0
Keys == 1..MaxKey
KeyArgs == Keys \cup {NoKey}
\* application records [id, d]: the field the key path names, and an opaque
\* payload; a saveValue call's payload is the number of the call, so that every
\* written value tells which call wrote it
NoData == 0
Value(key, payload) == [id |-> key, d |-> payload]
\* the value `undefined` where a record is expected
UndefRec == Value(NoKey, NoData)

\* connections to the one database the hook is given (dbName)
Handles == {"db1", "db2"}
TableNames == {"memo"}
\* indexing.memo: the key path and index name createTable declares
IndexingMemo == "memo.id"
IndexNames == {IndexingMemo, "other"}

\* errors: id is the identity of the error object, name its `name` field
NoErr == [id |-> "none", name |-> "none"]
DOMException(n) == [id |-> n, name |-> n]

\* the outcome of running a thunk: it returns a value or throws
Return(v) == [kind |-> "return", val |-> v, err |-> NoErr]
Throw(e) == [kind |-> "throw", val |-> UNDEFINED, err |-> e]

\* ------------------------------------------------------ error boundary
errorNameEnum ==
  {"transactionError", "objectStoreError", "createError", "indexError",
   "openCursorError"}

\* one console.error of errorCase: the name it references and the error
Diagnostic(err) == [level |-> "error", msg |-> err.name, err |-> err.id]
Console(level, msg) == [level |-> level, msg |-> msg, err |-> "none"]

errorCase_noIndexBranch(err) ==
  [diag |-> (IF err.name = "transactionError" THEN <<Diagnostic(err)>> ELSE <<>>)
         \o (IF err.name = "objectStoreError" THEN <<Diagnostic(err)>> ELSE <<>>)
         \o (IF err.name = "createError" THEN <<Diagnostic(err)>> ELSE <<>>)
         \o (IF err.name = "openCursorError" THEN <<Diagnostic(err)>> ELSE <<>>),
   thrown |-> err]

\* errorCase: five independent `if`s, each a console.error, then `throw err`
errorCase(err) ==
  [diag |-> (IF err.name = "transactionError" THEN <<Diagnostic(err)>> ELSE <<>>)
         \o (IF err.name = "objectStoreError" THEN <<Diagnostic(err)>> ELSE <<>>)
         \o (IF err.name = "createError" THEN <<Diagnostic(err)>> ELSE <<>>)
         \o (IF err.name = "indexError" THEN <<Diagnostic(err)>> ELSE <<>>)
         \o (IF err.name = "openCursorError" THEN <<Diagnostic(err)>> ELSE <<>>),
   thrown |-> err]

\* the classifier for one stage name: the same error object, named errorName
customErrHandlerGenerator(errorName, e) == [e EXCEPT !.name = errorName]

\* the boundary around one run of a thunk: its value unchanged when it
\* returns; when it throws, the classified error goes through errorCase
customErrorBoundary(errorName, act) ==
  IF act.kind = "return"
  THEN [kind |-> "return", val |-> act.val, err |-> NoErr, diag |-> <<>>]
  ELSE LET res == errorCase(customErrHandlerGenerator(errorName, act.err))
       IN [kind |-> "throw", val |-> UNDEFINED, err |-> res.thrown,
           diag |-> res.diag]

errorHandlerGenerator_reportAlways(errorName, act) ==
  LET res == errorCase(customErrHandlerGenerator(errorName,
                 IF act.kind = "throw" THEN act.err ELSE DOMException(act.val)))
  IN [kind |-> "throw", val |-> UNDEFINED, err |-> res.thrown, diag |-> res.diag]

errorHandlerGenerator(errorName, act) == customErrorBoundary(errorName, act)

handleTransactionErr(act) == errorHandlerGenerator("transactionError", act)
handleObjectStoreErr(act) == errorHandlerGenerator("objectStoreError", act)
handleCreateErr(act) == errorHandlerGenerator("createError", act)
handleIndexErr(act) == errorHandlerGenerator("indexError", act)
handleOpenCursorErr(act) == errorHandlerGenerator("openCursorError", act)

\* the exported handler of a stage name
StageHandler(stage, act) ==
  CASE stage = "transactionError" -> handleTransactionErr(act)
    [] stage = "objectStoreError" -> handleObjectStoreErr(act)
    [] stage = "createError" -> handleCreateErr(act)
    [] stage = "indexError" -> handleIndexErr(act)
    [] stage = "openCursorError" -> handleOpenCursorErr(act)

\* a step that no stage handler wraps (table.get, table.delete)
Direct(act) == [kind |-> act.kind, val |-> act.val, err |-> act.err, diag |-> <<>>]

VARIABLES
  atom,       \* the handle the state container holds (indexedDBAtom)
  database,   \* the handle the hook read at its last render (line 103)
  upgrading,  \* the connection whose version-change transaction runs, or NULL
  stores,     \* the engine's object stores: name -> key path, indexes, records
  pending,    \* ids of the calls whose request the engine has not answered
  calls,      \* one record per call of the layer, in call order
  hlog        \* per stage name, the latest direct invocation of its handler

vars == <<atom, database, upgrading, stores, pending, calls, hlog>>

\* ------------------------------------------- direct use of the handlers
\* what a thunk handed to a stage handler may do
ThrownErrors == [id : {"E1", "E2"}, name : {"Error", "indexError"}]
Thunks == {Return(v) : v \in {"v1", "v2"}} \cup {Throw(e) : e \in ThrownErrors}

\* hlog[stage]: the latest direct invocation of that stage's handler
NotInvoked ==
  [invoked |-> FALSE, act |-> Return(UNDEFINED),
   res |-> Direct(Return(UNDEFINED))]

InvokeHandler(stage, act) ==
  /\ hlog' = [hlog EXCEPT ![stage] =
                 [invoked |-> TRUE, act |-> act, res |-> StageHandler(stage, act)]]
  /\ UNCHANGED <<atom, database, upgrading, stores, pending, calls>>

InitHandlers ==
  /\ atom = NULL
  /\ database = NULL
  /\ upgrading = NULL
  /\ stores = << >>
  /\ pending = << >>
  /\ calls = << >>
  /\ hlog = [s \in errorNameEnum |-> NotInvoked]

NextHandlers == \E stage \in errorNameEnum, act \in Thunks : InvokeHandler(stage, act)

SpecHandlers == InitHandlers /\ [][NextHandlers]_vars

\* C1: for each of the five stage names, a stage handler whose action throws E
\* emits exactly one diagnostic, which references that stage name, and itself
\* throws the error object E (now named after the stage); it never returns.
C1_ThrowReportedOnceAndRethrown ==
  \A s \in errorNameEnum :
    (hlog[s].invoked /\ hlog[s].act.kind = "throw") =>
      /\ Len(hlog[s].res.diag) = 1
      /\ hlog[s].res.diag[1].msg = s
      /\ hlog[s].res.diag[1].err = hlog[s].act.err.id
      /\ hlog[s].res.kind = "throw"
      /\ hlog[s].res.err.id = hlog[s].act.err.id
      /\ hlog[s].res.err.name = s

C1_Witness ==
  \A s \in errorNameEnum :
    /\ hlog[s].invoked
    /\ hlog[s].act.kind = "throw"
    /\ hlog[s].res.kind = "throw"
    /\ Len(hlog[s].res.diag) = 1

\* C2: a stage handler whose action does not throw returns the action's value
\* unchanged and emits no diagnostic.
C2_ReturnUnchangedNoDiagnostic ==
  \A s \in errorNameEnum :
    (hlog[s].invoked /\ hlog[s].act.kind = "return") =>
      /\ hlog[s].res.kind = "return"
      /\ hlog[s].res.val = hlog[s].act.val
      /\ hlog[s].res.err = NoErr
      /\ hlog[s].res.diag = << >>

C2_Witness ==
  \A s \in errorNameEnum :
    /\ hlog[s].invoked
    /\ hlog[s].act.kind = "return"
    /\ hlog[s].res.val \in {"v1", "v2"}

\* ------------------------------------------------------------ the engine
\* The IndexedDB engine is external; it is modelled by its public contract.
Store(recs) ==
  [keyPath |-> IndexingMemo,
   indexes |-> {[name |-> IndexingMemo, keyPath |-> IndexingMemo, unique |-> TRUE]},
   records |-> recs]

Truthy(h) == h # NULL /\ h # UNDEFINED

\* IDBDatabase.transaction(name, mode): InvalidStateError while a version-change
\* transaction runs, NotFoundError for a store that does not exist
EngineTransaction(tableName) ==
  IF upgrading # NULL THEN Throw(DOMException("InvalidStateError"))
  ELSE IF tableName \notin DOMAIN stores THEN Throw(DOMException("NotFoundError"))
  ELSE Return("transaction")

\* IDBTransaction.objectStore(name): the name is the transaction's own scope
EngineObjectStore(tableName) ==
  IF tableName \notin DOMAIN stores THEN Throw(DOMException("NotFoundError"))
  ELSE Return("objectStore")

\* IDBObjectStore.index(name): NotFoundError for an index that does not exist
EngineIndex(tableName, indexName) ==
  IF /\ tableName \in DOMAIN stores
     /\ \E ix \in stores[tableName].indexes : ix.name = indexName
  THEN Return("index")
  ELSE Throw(DOMException("NotFoundError"))

\* IDBIndex.openCursor(null, 'prev') and the assignment of its two callbacks
EngineOpenCursor == Return("cursorRequest")

\* IDBObjectStore.get(key) / delete(key): DataError for a key that is not valid
EngineKeyRequest(key) ==
  IF key = NoKey THEN Throw(DOMException("DataError")) ELSE Return("request")

\* IDBObjectStore.add(value, key) / put(value, key) on a store with a key path:
\* DataError when a key argument is given as well
EngineValueRequest(value, key) ==
  IF key # NoKey THEN Throw(DOMException("DataError")) ELSE Return("request")

\* IDBDatabase.createObjectStore / deleteObjectStore: only inside the version-
\* change transaction of that connection
EngineCreateObjectStore(db, tableName) ==
  IF upgrading # db THEN Throw(DOMException("InvalidStateError"))
  ELSE IF tableName \in DOMAIN stores THEN Throw(DOMException("ConstraintError"))
  ELSE Return("objectStore")

EngineDeleteObjectStore(db, tableName) ==
  IF upgrading # db THEN Throw(DOMException("InvalidStateError"))
  ELSE IF tableName \notin DOMAIN stores THEN Throw(DOMException("NotFoundError"))
  ELSE Return(UNDEFINED)

\* the record stored under a key, or undefined
Lookup(tableName, key) ==
  IF \E r \in stores[tableName].records : r.id = key
  THEN CHOOSE r \in stores[tableName].records : r.id = key
  ELSE UndefRec

\* the record a reverse cursor over the index is first positioned at
LastByIndex(tableName) ==
  IF stores[tableName].records = {} THEN UndefRec
  ELSE CHOOSE r \in stores[tableName].records :
         \A q \in stores[tableName].records : q.id <= r.id

\* the record a forward cursor over the index is first positioned at
FirstByIndex(tableName) ==
  IF stores[tableName].records = {} THEN UndefRec
  ELSE CHOOSE r \in stores[tableName].records :
         \A q \in stores[tableName].records : r.id <= q.id

WithRecords(tableName, recs) ==
  [stores EXCEPT ![tableName] = [@ EXCEPT !.records = recs]]

\* what the engine does with a request that it does not fail for a reason of
\* its own: the notification it delivers, the result or error, the new stores
EngineProcess(c) ==
  LET t == c.table
      recs == stores[t].records
      ok(result, st) == [channel |-> "success", result |-> result,
                         error |-> NoErr, stores |-> st]
  IN CASE c.req = "get" -> ok(Lookup(t, c.key), stores)
       [] c.req = "openCursor.prev" -> ok(LastByIndex(t), stores)
       [] c.req = "openCursor.next" -> ok(FirstByIndex(t), stores)
       [] c.req = "add" ->
            IF \E r \in recs : r.id = c.value.id
            THEN [channel |-> "error", result |-> UndefRec,
                  error |-> DOMException("ConstraintError"), stores |-> stores]
            ELSE ok(UndefRec, WithRecords(t, recs \cup {c.value}))
       [] c.req = "put" ->
            ok(UndefRec,
               WithRecords(t, {r \in recs : r.id # c.value.id} \cup {c.value}))
       [] c.req = "delete" ->
            ok(UndefRec, WithRecords(t, {r \in recs : r.id # c.key}))

\* a failure of the engine's own (quota, I/O): the error notification
EngineFault(c) ==
  [channel |-> "error", result |-> UndefRec,
   error |-> DOMException("UnknownError"), stores |-> stores]

IsWrite(c) == c.req \in {"add", "put", "delete"}

\* transactions whose scopes overlap run in the order they were created when
\* one of them is read-write
Conflict(c1, c2) == c1.table = c2.table /\ (IsWrite(c1) \/ IsWrite(c2))

\* ------------------------------------------------------------- promises
NoPromise == [state |-> "none", val |-> UndefRec, wrap |-> "none", err |-> NoErr]
Pending == [NoPromise EXCEPT !.state = "pending"]
Resolved(v) == [NoPromise EXCEPT !.state = "resolved", !.val = v]
Rejected(wrap, e) == [NoPromise EXCEPT !.state = "rejected", !.wrap = wrap, !.err = e]
\* resolve / reject settle a promise once; later calls change nothing
Settle(p, outcome) == IF p.state = "pending" THEN outcome ELSE p

\* ------------------------------------------------- the synchronous steps
RECURSIVE FirstThrow(_, _)
FirstThrow(steps, i) ==
  IF i > Len(steps) THEN i
  ELSE IF steps[i].out.kind = "throw" THEN i
  ELSE FirstThrow(steps, i + 1)

RECURSIVE Diags(_, _)
Diags(steps, n) == IF n = 0 THEN << >> ELSE Diags(steps, n - 1) \o steps[n].out.diag

RunSteps_noShortCircuit(steps) ==
  LET n == FirstThrow(steps, 1)
  IN [eng |-> [i \in 1..Len(steps) |-> steps[i].api],
      console |-> Diags(steps, Len(steps)),
      err |-> IF n > Len(steps) THEN NoErr ELSE steps[n].out.err]

\* statements in sequence inside one try block: the first throw ends the
\* sequence, and the steps after it are not executed
RunSteps(steps) ==
  LET n == FirstThrow(steps, 1)
      m == IF n > Len(steps) THEN Len(steps) ELSE n
  IN [eng |-> [i \in 1..m |-> steps[i].api],
      console |-> Diags(steps, m),
      err |-> IF n > Len(steps) THEN NoErr ELSE steps[n].out.err]

Step(api, out) == [api |-> api, out |-> out]

\* the record of one call: its arguments, what its synchronous part did, and
\* what has been delivered to its caller since
NewCall(op) ==
  [op |-> op, table |-> "", key |-> NoKey, value |-> UndefRec, type |-> "none",
   index |-> "", db |-> UNDEFINED, cb |-> {},
   h |-> database, eng |-> << >>, console |-> << >>, thrown |-> NoErr,
   ret |-> UNDEFINED, promise |-> NoPromise, req |-> "none",
   cbs |-> << >>, notified |-> "none", fault |-> FALSE]

ConsoleErr(level, msg, e) == [level |-> level, msg |-> msg, err |-> e.id]

destroyDatabase ==
  IF ~Truthy(database)
  THEN [NewCall("destroyDatabase") EXCEPT !.console = <<Console("warn", "no database")>>]
  ELSE [NewCall("destroyDatabase") EXCEPT !.eng = <<"deleteDatabase">>,
                                         !.ret = "deleteRequest"]

createTable_noExistsCheck(tableName, db) ==
  LET handle == IF db = UNDEFINED THEN database ELSE db
      c == [NewCall("createTable") EXCEPT !.table = tableName, !.db = db]
      made == EngineCreateObjectStore(handle, tableName)
  IN IF ~Truthy(handle)
     THEN [c EXCEPT !.console = <<Console("error", "no database")>>]
     ELSE IF made.kind = "throw"
     THEN [c EXCEPT !.eng = <<"createObjectStore">>, !.thrown = made.err]
     ELSE [c EXCEPT !.eng = <<"createObjectStore", "createIndex">>,
                    !.ret = "objectStore"]

createTable(tableName, db) ==
  LET handle == IF db = UNDEFINED THEN database ELSE db
      c == [NewCall("createTable") EXCEPT !.table = tableName, !.db = db]
      made == EngineCreateObjectStore(handle, tableName)
  IN IF ~Truthy(handle)
     THEN [c EXCEPT !.console = <<Console("error", "no database")>>]
     ELSE IF tableName \in DOMAIN stores
     THEN [c EXCEPT !.eng = <<"objectStoreNames.contains">>]
     ELSE IF made.kind = "throw"
     THEN [c EXCEPT !.eng = <<"objectStoreNames.contains", "createObjectStore">>,
                    !.thrown = made.err]
     ELSE [c EXCEPT !.eng = <<"objectStoreNames.contains", "createObjectStore",
                              "createIndex">>,
                    !.ret = "objectStore"]

deleteTable_swallowsError(tableName) ==
  LET c == [NewCall("deleteTable") EXCEPT !.table = tableName]
  IN IF database = NULL
     THEN [c EXCEPT !.console = <<Console("error", "no database")>>]
     ELSE [c EXCEPT !.eng = <<"deleteObjectStore">>]

deleteTable(tableName) ==
  LET c == [NewCall("deleteTable") EXCEPT !.table = tableName]
      gone == EngineDeleteObjectStore(database, tableName)
  IN IF database = NULL
     THEN [c EXCEPT !.console = <<Console("error", "no database")>>]
     ELSE [c EXCEPT !.eng = <<"deleteObjectStore">>, !.thrown = gone.err]

getValue_noHandleCheck(tableName, key) ==
  LET c == [NewCall("getValue") EXCEPT !.table = tableName, !.key = key]
      r == RunSteps(<<
             Step("transaction.readonly", handleTransactionErr(EngineTransaction(tableName))),
             Step("objectStore", handleObjectStoreErr(EngineObjectStore(tableName))),
             Step("get", Direct(EngineKeyRequest(key)))>>)
  IN IF r.err = NoErr
     THEN [c EXCEPT !.eng = r.eng, !.console = r.console,
                    !.promise = Pending, !.req = "get"]
     ELSE [c EXCEPT !.eng = r.eng, !.console = r.console,
                    !.promise = Rejected("uncaught error", r.err)]

getValue_catchSwallows(tableName, key) ==
  LET c == [NewCall("getValue") EXCEPT !.table = tableName, !.key = key]
      r == RunSteps(<<
             Step("transaction.readonly", handleTransactionErr(EngineTransaction(tableName))),
             Step("objectStore", handleObjectStoreErr(EngineObjectStore(tableName))),
             Step("get", Direct(EngineKeyRequest(key)))>>)
  IN IF ~Truthy(database)
     THEN [c EXCEPT !.promise = Resolved(UndefRec)]
     ELSE IF r.err = NoErr
     THEN [c EXCEPT !.eng = r.eng, !.console = r.console,
                    !.promise = Pending, !.req = "get"]
     ELSE [c EXCEPT !.eng = r.eng, !.console = r.console,
                    !.promise = Pending]

getValue_deleteRequest(tableName, key) ==
  LET c == [NewCall("getValue") EXCEPT !.table = tableName, !.key = key]
      r == RunSteps(<<
             Step("transaction.readwrite", handleTransactionErr(EngineTransaction(tableName))),
             Step("objectStore", handleObjectStoreErr(EngineObjectStore(tableName))),
             Step("delete", Direct(EngineKeyRequest(key)))>>)
  IN IF ~Truthy(database)
     THEN [c EXCEPT !.promise = Resolved(UndefRec)]
     ELSE IF r.err = NoErr
     THEN [c EXCEPT !.eng = r.eng, !.console = r.console,
                    !.promise = Pending, !.req = "delete"]
     ELSE [c EXCEPT !.eng = r.eng, !.console = r.console,
                    !.promise = Rejected("uncaught error", r.err)]

getValue(tableName, key) ==
  LET c == [NewCall("getValue") EXCEPT !.table = tableName, !.key = key]
      r == RunSteps(<<
             Step("transaction.readonly", handleTransactionErr(EngineTransaction(tableName))),
             Step("objectStore", handleObjectStoreErr(EngineObjectStore(tableName))),
             Step("get", Direct(EngineKeyRequest(key)))>>)
  IN IF ~Truthy(database)
     THEN [c EXCEPT !.promise = Resolved(UndefRec)]
     ELSE IF r.err = NoErr
     THEN [c EXCEPT !.eng = r.eng, !.console = r.console,
                    !.promise = Pending, !.req = "get"]
     ELSE [c EXCEPT !.eng = r.eng, !.console = r.console,
                    !.promise = Rejected("uncaught error", r.err)]

getLastValueFromTable_next(tableName, indexing) ==
  LET c == [NewCall("getLastValueFromTable") EXCEPT !.table = tableName,
                                                    !.index = indexing]
      r == RunSteps(<<
             Step("transaction.readonly", handleTransactionErr(EngineTransaction(tableName))),
             Step("objectStore", handleObjectStoreErr(EngineObjectStore(tableName))),
             Step("index", handleIndexErr(EngineIndex(tableName, indexing))),
             Step("openCursor.next", handleOpenCursorErr(EngineOpenCursor))>>)
  IN IF ~Truthy(database)
     THEN [c EXCEPT !.promise = Resolved(UndefRec)]
     ELSE IF r.err = NoErr
     THEN [c EXCEPT !.eng = r.eng, !.console = r.console,
                    !.promise = Pending, !.req = "openCursor.next"]
     ELSE [c EXCEPT !.eng = r.eng, !.console = r.console,
                    !.promise = Rejected("uncaught error", r.err)]

getLastValueFromTable_catchResolves(tableName, indexing) ==
  LET c == [NewCall("getLastValueFromTable") EXCEPT !.table = tableName,
                                                    !.index = indexing]
      r == RunSteps(<<
             Step("transaction.readonly", handleTransactionErr(EngineTransaction(tableName))),
             Step("objectStore", handleObjectStoreErr(EngineObjectStore(tableName))),
             Step("index", handleIndexErr(EngineIndex(tableName, indexing))),
             Step("openCursor.prev", handleOpenCursorErr(EngineOpenCursor))>>)
  IN IF ~Truthy(database)
     THEN [c EXCEPT !.promise = Resolved(UndefRec)]
     ELSE IF r.err = NoErr
     THEN [c EXCEPT !.eng = r.eng, !.console = r.console,
                    !.promise = Pending, !.req = "openCursor.prev"]
     ELSE [c EXCEPT !.eng = r.eng, !.console = r.console,
                    !.promise = Resolved(UndefRec)]

getLastValueFromTable(tableName, indexing) ==
  LET c == [NewCall("getLastValueFromTable") EXCEPT !.table = tableName,
                                                    !.index = indexing]
      r == RunSteps(<<
             Step("transaction.readonly", handleTransactionErr(EngineTransaction(tableName))),
             Step("objectStore", handleObjectStoreErr(EngineObjectStore(tableName))),
             Step("index", handleIndexErr(EngineIndex(tableName, indexing))),
             Step("openCursor.prev", handleOpenCursorErr(EngineOpenCursor))>>)
  IN IF ~Truthy(database)
     THEN [c EXCEPT !.promise = Resolved(UndefRec)]
     ELSE IF r.err = NoErr
     THEN [c EXCEPT !.eng = r.eng, !.console = r.console,
                    !.promise = Pending, !.req = "openCursor.prev"]
     ELSE [c EXCEPT !.eng = r.eng, !.console = r.console,
                    !.promise = Rejected("uncaught error", r.err)]

saveValue_noHandleCheck(tableName, key, value, type, cb) ==
  LET c == [NewCall("saveValue") EXCEPT !.table = tableName, !.key = key,
                                        !.value = value, !.type = type, !.cb = cb]
      r == RunSteps(<<
             Step("transaction.readwrite", handleTransactionErr(EngineTransaction(tableName))),
             Step("objectStore", handleObjectStoreErr(EngineObjectStore(tableName))),
             Step(IF type = "add" THEN "add" ELSE "put",
                  handleCreateErr(EngineValueRequest(value, key)))>>)
  IN IF r.err = NoErr
     THEN [c EXCEPT !.eng = r.eng, !.console = r.console,
                    !.req = IF type = "add" THEN "add" ELSE "put"]
     ELSE [c EXCEPT !.eng = r.eng,
                    !.console = r.console \o <<ConsoleErr("log", "uncaught error", r.err)>>]

saveValue_alwaysPut(tableName, key, value, type, cb) ==
  LET c == [NewCall("saveValue") EXCEPT !.table = tableName, !.key = key,
                                        !.value = value, !.type = type, !.cb = cb]
      r == RunSteps(<<
             Step("transaction.readwrite", handleTransactionErr(EngineTransaction(tableName))),
             Step("objectStore", handleObjectStoreErr(EngineObjectStore(tableName))),
             Step("put",
                  handleCreateErr(EngineValueRequest(value, key)))>>)
  IN IF ~Truthy(database)
     THEN [c EXCEPT !.console = <<Console("error", "no database")>>]
     ELSE IF r.err = NoErr
     THEN [c EXCEPT !.eng = r.eng, !.console = r.console,
                    !.req = "put"]
     ELSE [c EXCEPT !.eng = r.eng,
                    !.console = r.console \o <<ConsoleErr("log", "uncaught error", r.err)>>]

saveValue_alwaysAdd(tableName, key, value, type, cb) ==
  LET c == [NewCall("saveValue") EXCEPT !.table = tableName, !.key = key,
                                        !.value = value, !.type = type, !.cb = cb]
      r == RunSteps(<<
             Step("transaction.readwrite", handleTransactionErr(EngineTransaction(tableName))),
             Step("objectStore", handleObjectStoreErr(EngineObjectStore(tableName))),
             Step("add",
                  handleCreateErr(EngineValueRequest(value, key)))>>)
  IN IF ~Truthy(database)
     THEN [c EXCEPT !.console = <<Console("error", "no database")>>]
     ELSE IF r.err = NoErr
     THEN [c EXCEPT !.eng = r.eng, !.console = r.console,
                    !.req = "add"]
     ELSE [c EXCEPT !.eng = r.eng,
                    !.console = r.console \o <<ConsoleErr("log", "uncaught error", r.err)>>]

saveValue(tableName, key, value, type, cb) ==
  LET c == [NewCall("saveValue") EXCEPT !.table = tableName, !.key = key,
                                        !.value = value, !.type = type, !.cb = cb]
      r == RunSteps(<<
             Step("transaction.readwrite", handleTransactionErr(EngineTransaction(tableName))),
             Step("objectStore", handleObjectStoreErr(EngineObjectStore(tableName))),
             Step(IF type = "add" THEN "add" ELSE "put",
                  handleCreateErr(EngineValueRequest(value, key)))>>)
  IN IF ~Truthy(database)
     THEN [c EXCEPT !.console = <<Console("error", "no database")>>]
     ELSE IF r.err = NoErr
     THEN [c EXCEPT !.eng = r.eng, !.console = r.console,
                    !.req = IF type = "add" THEN "add" ELSE "put"]
     ELSE [c EXCEPT !.eng = r.eng,
                    !.console = r.console \o <<ConsoleErr("log", "uncaught error", r.err)>>]

deleteValue_getRequest(tableName, key, cb) ==
  LET c == [NewCall("deleteValue") EXCEPT !.table = tableName, !.key = key, !.cb = cb]
      r == RunSteps(<<
             Step("transaction.readwrite", handleTransactionErr(EngineTransaction(tableName))),
             Step("objectStore", handleObjectStoreErr(EngineObjectStore(tableName))),
             Step("get", Direct(EngineKeyRequest(key)))>>)
  IN IF ~Truthy(database)
     THEN [c EXCEPT !.console = <<Console("error", "no database")>>]
     ELSE IF r.err = NoErr
     THEN [c EXCEPT !.eng = r.eng, !.console = r.console, !.req = "get"]
     ELSE [c EXCEPT !.eng = r.eng,
                    !.console = r.console \o <<ConsoleErr("log", "uncaught error", r.err)>>]

deleteValue_catchRethrows(tableName, key, cb) ==
  LET c == [NewCall("deleteValue") EXCEPT !.table = tableName, !.key = key, !.cb = cb]
      r == RunSteps(<<
             Step("transaction.readwrite", handleTransactionErr(EngineTransaction(tableName))),
             Step("objectStore", handleObjectStoreErr(EngineObjectStore(tableName))),
             Step("delete", Direct(EngineKeyRequest(key)))>>)
  IN IF ~Truthy(database)
     THEN [c EXCEPT !.console = <<Console("error", "no database")>>]
     ELSE IF r.err = NoErr
     THEN [c EXCEPT !.eng = r.eng, !.console = r.console, !.req = "delete"]
     ELSE [c EXCEPT !.eng = r.eng,
                    !.console = r.console \o <<ConsoleErr("log", "uncaught error", r.err)>>,
                    !.thrown = r.err]

deleteValue(tableName, key, cb) ==
  LET c == [NewCall("deleteValue") EXCEPT !.table = tableName, !.key = key, !.cb = cb]
      r == RunSteps(<<
             Step("transaction.readwrite", handleTransactionErr(EngineTransaction(tableName))),
             Step("objectStore", handleObjectStoreErr(EngineObjectStore(tableName))),
             Step("delete", Direct(EngineKeyRequest(key)))>>)
  IN IF ~Truthy(database)
     THEN [c EXCEPT !.console = <<Console("error", "no database")>>]
     ELSE IF r.err = NoErr
     THEN [c EXCEPT !.eng = r.eng, !.console = r.console, !.req = "delete"]
     ELSE [c EXCEPT !.eng = r.eng,
                    !.console = r.console \o <<ConsoleErr("log", "uncaught error", r.err)>>]

\* ------------------------------------------- the notification callbacks
\* request.onsuccess / request.onerror as each operation assigns them
onsuccess_resultDropped(c, result) ==
  CASE c.op = "getValue" -> [c EXCEPT !.promise = Settle(@, Resolved(UndefRec))]
    [] c.op = "getLastValueFromTable" ->
         [c EXCEPT !.promise = Settle(@, Resolved(result))]
    [] c.op = "saveValue" ->
         [c EXCEPT !.console = @ \o <<Console("log", "save success")>>,
                   !.cbs = IF "onSuccess" \in c.cb THEN @ \o <<"onSuccess">> ELSE @]
    [] c.op = "deleteValue" ->
         [c EXCEPT !.cbs = IF "onSuccess" \in c.cb THEN @ \o <<"onSuccess">> ELSE @]

onsuccess_cursorOnlyIfPresent(c, result) ==
  CASE c.op = "getValue" -> [c EXCEPT !.promise = Settle(@, Resolved(result))]
    [] c.op = "getLastValueFromTable" ->
         IF result = UndefRec THEN [c EXCEPT !.eng = @ \o <<"continue">>]
         ELSE [c EXCEPT !.promise = Settle(@, Resolved(result))]
    [] c.op = "saveValue" ->
         [c EXCEPT !.console = @ \o <<Console("log", "save success")>>,
                   !.cbs = IF "onSuccess" \in c.cb THEN @ \o <<"onSuccess">> ELSE @]
    [] c.op = "deleteValue" ->
         [c EXCEPT !.cbs = IF "onSuccess" \in c.cb THEN @ \o <<"onSuccess">> ELSE @]

onsuccess(c, result) ==
  CASE c.op = "getValue" -> [c EXCEPT !.promise = Settle(@, Resolved(result))]
    [] c.op = "getLastValueFromTable" ->
         [c EXCEPT !.promise = Settle(@, Resolved(result))]
    [] c.op = "saveValue" ->
         [c EXCEPT !.console = @ \o <<Console("log", "save success")>>,
                   !.cbs = IF "onSuccess" \in c.cb THEN @ \o <<"onSuccess">> ELSE @]
    [] c.op = "deleteValue" ->
         [c EXCEPT !.cbs = IF "onSuccess" \in c.cb THEN @ \o <<"onSuccess">> ELSE @]

CursorFailure ==
  [id |-> "Failed to retrieve last value from object store", name |-> "Error"]

onerror_readResolvesUndefined(c, error) ==
  CASE c.op = "getValue" -> [c EXCEPT !.promise = Settle(@, Resolved(UndefRec))]
    [] c.op = "getLastValueFromTable" ->
         [c EXCEPT !.promise = Settle(@, Rejected("none", CursorFailure))]
    [] c.op = "saveValue" ->
         [c EXCEPT !.console = @ \o <<Console("error", "no suffient space to save data")>>,
                   !.cbs = IF "onError" \in c.cb THEN @ \o <<"onError">> ELSE @]
    [] c.op = "deleteValue" ->
         [c EXCEPT !.cbs = IF "onError" \in c.cb THEN @ \o <<"onError">> ELSE @]

onerror_alsoOnSuccess(c, error) ==
  CASE c.op = "getValue" -> [c EXCEPT !.promise = Settle(@, Rejected("none", error))]
    [] c.op = "getLastValueFromTable" ->
         [c EXCEPT !.promise = Settle(@, Rejected("none", CursorFailure))]
    [] c.op = "saveValue" ->
         [c EXCEPT !.console = @ \o <<Console("error", "no suffient space to save data")>>,
                   !.cbs = (IF "onSuccess" \in c.cb THEN @ \o <<"onSuccess">> ELSE @)
                           \o (IF "onError" \in c.cb THEN <<"onError">> ELSE << >>)]
    [] c.op = "deleteValue" ->
         [c EXCEPT !.cbs = IF "onError" \in c.cb THEN @ \o <<"onError">> ELSE @]

onerror(c, error) ==
  CASE c.op = "getValue" -> [c EXCEPT !.promise = Settle(@, Rejected("none", error))]
    [] c.op = "getLastValueFromTable" ->
         [c EXCEPT !.promise = Settle(@, Rejected("none", CursorFailure))]
    [] c.op = "saveValue" ->
         [c EXCEPT !.console = @ \o <<Console("error", "no suffient space to save data")>>,
                   !.cbs = IF "onError" \in c.cb THEN @ \o <<"onError">> ELSE @]
    [] c.op = "deleteValue" ->
         [c EXCEPT !.cbs = IF "onError" \in c.cb THEN @ \o <<"onError">> ELSE @]

\* ---------------------------------------------------------------- actions
\* a call of the layer: its record joins the history, its request the engine
Issue(c) ==
  /\ calls' = Append(calls, c)
  /\ pending' = IF c.req = "none" THEN pending ELSE Append(pending, Len(calls) + 1)
  /\ UNCHANGED <<atom, database, upgrading, hlog>>

CallbackSets == {{}, {"onSuccess", "onError"}}

CallDestroyDatabase == Issue(destroyDatabase) /\ UNCHANGED stores

CallCreateTable(tableName, db) ==
  /\ Issue(createTable(tableName, db))
  /\ stores' = IF createTable(tableName, db).ret = "objectStore"
               THEN [n \in DOMAIN stores \cup {tableName} |->
                       IF n = tableName THEN Store({}) ELSE stores[n]]
               ELSE stores

CallDeleteTable(tableName) ==
  /\ Issue(deleteTable(tableName))
  /\ stores' = IF deleteTable(tableName).eng # << >> /\ deleteTable(tableName).thrown = NoErr
               THEN [n \in DOMAIN stores \ {tableName} |-> stores[n]]
               ELSE stores

CallGetValue(tableName, key) == Issue(getValue(tableName, key)) /\ UNCHANGED stores

CallGetLastValueFromTable(tableName, indexing) ==
  Issue(getLastValueFromTable(tableName, indexing)) /\ UNCHANGED stores

CallSaveValue(tableName, key, value, type, cb) ==
  Issue(saveValue(tableName, key, value, type, cb)) /\ UNCHANGED stores

CallDeleteValue(tableName, key, cb) ==
  Issue(deleteValue(tableName, key, cb)) /\ UNCHANGED stores

\* the engine may answer a request once no earlier conflicting one is open
Ready(k) == \A j \in 1..(k - 1) : ~Conflict(calls[pending[j]], calls[pending[k]])

Remove(seq, k) == [i \in 1..(Len(seq) - 1) |-> IF i < k THEN seq[i] ELSE seq[i + 1]]

Deliver(k, answer, fault) ==
  LET id == pending[k]
      c == [calls[id] EXCEPT !.notified = answer.channel, !.fault = fault]
  IN /\ calls' = [calls EXCEPT ![id] =
                    IF answer.channel = "success" THEN onsuccess(c, answer.result)
                    ELSE onerror(c, answer.error)]
     /\ stores' = answer.stores
     /\ pending' = Remove(pending, k)
     /\ UNCHANGED <<atom, database, upgrading, hlog>>

\* the engine processes a request and notifies it
Notify(k) == Ready(k) /\ Deliver(k, EngineProcess(calls[pending[k]]), FALSE)

\* the engine fails a request for a reason of its own and notifies the error
NotifyFault(k) == Ready(k) /\ Deliver(k, EngineFault(calls[pending[k]]), TRUE)

\* code outside the layer sets, replaces or clears the container's handle
SetHandle(h) ==
  /\ atom # h
  /\ atom' = h
  /\ UNCHANGED <<database, upgrading, stores, pending, calls, hlog>>

\* the hook renders again and reads the container (line 103)
Render ==
  /\ database # atom
  /\ database' = atom
  /\ UNCHANGED <<atom, upgrading, stores, pending, calls, hlog>>

\* a connection is opened at a new version: its version-change transaction
\* starts once no other transaction is open, and later completes
UpgradeNeeded(h) ==
  /\ upgrading = NULL
  /\ pending = << >>
  /\ upgrading' = h
  /\ UNCHANGED <<atom, database, stores, pending, calls, hlog>>

UpgradeComplete ==
  /\ upgrading # NULL
  /\ upgrading' = NULL
  /\ UNCHANGED <<atom, database, stores, pending, calls, hlog>>

Init ==
  /\ atom = NULL
  /\ database = NULL
  /\ upgrading = NULL
  /\ stores \in {<< >>, [n \in TableNames |-> Store({})]}
  /\ pending = << >>
  /\ calls = << >>
  /\ hlog = [s \in errorNameEnum |-> NotInvoked]

\* The inputs of Spec: every operation, every way a handle can be absent or
\* stale, every synchronous failure; one record key.
DbArgs == {UNDEFINED, NULL} \cup Handles
SomeKeyArgs == {NoKey, 1}

Next ==
  \/ Len(calls) < MaxCalls /\ CallDestroyDatabase
  \/ \E t \in TableNames, db \in DbArgs :
        Len(calls) < MaxCalls /\ CallCreateTable(t, db)
  \/ \E t \in TableNames : Len(calls) < MaxCalls /\ CallDeleteTable(t)
  \/ \E t \in TableNames, k \in SomeKeyArgs :
        Len(calls) < MaxCalls /\ CallGetValue(t, k)
  \/ \E t \in TableNames, ix \in IndexNames :
        Len(calls) < MaxCalls /\ CallGetLastValueFromTable(t, ix)
  \/ \E t \in TableNames, k \in SomeKeyArgs, ty \in {"add", "put"},
        cb \in CallbackSets :
        Len(calls) < MaxCalls /\ CallSaveValue(t, k, Value(1, Len(calls) + 1), ty, cb)
  \/ \E t \in TableNames, k \in SomeKeyArgs, cb \in CallbackSets :
        Len(calls) < MaxCalls /\ CallDeleteValue(t, k, cb)
  \/ \E k \in DOMAIN pending : Notify(k)
  \/ \E k \in DOMAIN pending : NotifyFault(k)
  \/ \E h \in Handles \cup {NULL} : SetHandle(h)
  \/ Render
  \/ \E h \in Handles : UpgradeNeeded(h)
  \/ UpgradeComplete

Spec == Init /\ [][Next]_vars

\* SpecSchema: the table lifecycle operations, with every handle argument,
\* inside and outside version-change transactions.
NextSchema ==
  \/ \E t \in TableNames, db \in DbArgs :
        Len(calls) < MaxSchemaCalls /\ CallCreateTable(t, db)
  \/ \E t \in TableNames : Len(calls) < MaxSchemaCalls /\ CallDeleteTable(t)
  \/ \E h \in Handles \cup {NULL} : SetHandle(h)
  \/ Render
  \/ \E h \in Handles : UpgradeNeeded(h)
  \/ UpgradeComplete

SpecSchema == Init /\ [][NextSchema]_vars

\* SpecRead: the two read operations on every path: no handle, a stale
\* handle, a setup that throws, a request answered with success or with an
\* error. The database may hold records an earlier session stored.
Persisted == {Value(k, NoData) : k \in Keys}

InitRead ==
  /\ atom = NULL
  /\ database = NULL
  /\ upgrading = NULL
  /\ stores \in {<< >>} \cup {[n \in TableNames |-> Store(recs)] : recs \in {{}, Persisted}}
  /\ pending = << >>
  /\ calls = << >>
  /\ hlog = [s \in errorNameEnum |-> NotInvoked]

NextRead ==
  \/ \E t \in TableNames, k \in KeyArgs :
        Len(calls) < MaxReadCalls /\ CallGetValue(t, k)
  \/ \E t \in TableNames, ix \in IndexNames :
        Len(calls) < MaxReadCalls /\ CallGetLastValueFromTable(t, ix)
  \/ \E k \in DOMAIN pending : Notify(k)
  \/ \E k \in DOMAIN pending : NotifyFault(k)
  \/ \E h \in Handles \cup {NULL} : SetHandle(h)
  \/ Render
  \/ \E h \in Handles : UpgradeNeeded(h)
  \/ UpgradeComplete

SpecRead == InitRead /\ [][NextRead]_vars

\* The inputs of SpecData: the record operations on an open database whose
\* table exists, with every key, and callbacks supplied.
InitData ==
  /\ atom = "db1"
  /\ database = atom
  /\ upgrading = NULL
  /\ stores = [n \in TableNames |-> Store({})]
  /\ pending = << >>
  /\ calls = << >>
  /\ hlog = [s \in errorNameEnum |-> NotInvoked]

BothCallbacks == {"onSuccess", "onError"}

NextData ==
  \/ \E t \in TableNames, k \in Keys :
        Len(calls) < MaxDataCalls /\ CallGetValue(t, k)
  \/ \E t \in TableNames :
        Len(calls) < MaxDataCalls /\ CallGetLastValueFromTable(t, IndexingMemo)
  \/ \E t \in TableNames, id \in Keys, ty \in {"add", "put"} :
        /\ Len(calls) < MaxDataCalls
        /\ CallSaveValue(t, NoKey, Value(id, Len(calls) + 1), ty, BothCallbacks)
  \/ \E t \in TableNames, k \in Keys :
        Len(calls) < MaxDataCalls /\ CallDeleteValue(t, k, BothCallbacks)
  \/ \E k \in DOMAIN pending : Notify(k)
  \/ \E k \in DOMAIN pending : NotifyFault(k)

SpecData == InitData /\ [][NextData]_vars

\* ------------------------------------------------------------ the claims
\* the handle a call acts on: createTable's db argument when one is given
EffectiveDb(c) == IF c.op = "createTable" /\ c.db # UNDEFINED THEN c.db ELSE c.h

\* the call made no engine call, invoked no callback, threw nothing, and ended
\* with nothing returned and, for a read, a result resolved with undefined
NoOp(c) ==
  /\ c.eng = << >>
  /\ c.req = "none"
  /\ c.notified = "none"
  /\ c.cbs = << >>
  /\ c.thrown = NoErr
  /\ c.ret = UNDEFINED
  /\ c.promise = IF c.op \in {"getValue", "getLastValueFromTable"}
                 THEN Resolved(UndefRec) ELSE NoPromise

\* C3 as stated: every operation called while the hook's current handle is
\* absent is a no-op. createTable with a db argument refutes it.
C3_AbsentCurrentHandleNoOp ==
  \A i \in DOMAIN calls : calls[i].h = NULL => NoOp(calls[i])

\* C3 amended: every operation called while the handle it acts on is absent
\* (the hook's current handle, or createTable's db argument when one is given)
\* makes no engine call, invokes no callback and throws nothing.
C3_AbsentHandleNoOp ==
  \A i \in DOMAIN calls : EffectiveDb(calls[i]) = NULL => NoOp(calls[i])

C3_Witness ==
  /\ Len(calls) = 1
  /\ calls[1].op = "createTable"
  /\ calls[1].h # NULL /\ atom # NULL /\ upgrading = calls[1].h
  /\ calls[1].db = NULL
  /\ NoOp(calls[1])
  /\ calls[1].console = <<Console("error", "no database")>>

\* C4: getValue called with no current handle resolves with undefined and is
\* never rejected, for every table name and key.
C4_GetValueNoHandleResolvesUndefined ==
  \A i \in DOMAIN calls :
    (calls[i].op = "getValue" /\ calls[i].h = NULL) =>
      /\ calls[i].promise.state = "resolved"
      /\ calls[i].promise.val = UndefRec

C4_Witness ==
  /\ Len(calls) = 1
  /\ calls[1].op = "getValue" /\ calls[1].h = NULL
  /\ calls[1].key = 1 /\ calls[1].table \in DOMAIN stores
  /\ atom # NULL
  /\ calls[1].promise = Resolved(UndefRec)

\* the engine answers call i's request in this step
Answered(i) ==
  /\ i \in DOMAIN calls
  /\ calls[i].notified = "none"
  /\ calls'[i].notified # "none"

\* C5: when the engine answers a getValue request on an existing table without
\* a failure of its own, the result is resolved with the record stored under the
\* key at that moment if there is one, and resolved with undefined if there is
\* none; it is not rejected.
C5_GetValueResolvesStoredOrUndefined ==
  [][\A i \in DOMAIN calls :
       (calls[i].op = "getValue" /\ Answered(i) /\ ~calls'[i].fault) =>
         LET recs == stores[calls[i].table].records
             p == calls'[i].promise
         IN /\ p.state = "resolved"
            /\ IF \E r \in recs : r.id = calls[i].key
               THEN p.val \in recs /\ p.val.id = calls[i].key
               ELSE p.val = UndefRec]_vars

C5_Witness ==
  /\ Len(calls) = 3
  /\ calls[1].op = "saveValue" /\ calls[1].value = Value(1, 1)
  /\ calls[2].op = "getValue" /\ calls[2].key = 1
  /\ calls[2].promise = Resolved(Value(1, 1))
  /\ calls[3].op = "getValue" /\ calls[3].key = 2
  /\ calls[3].notified = "success"
  /\ calls[3].promise = Resolved(UndefRec)

IsSave(c, type) == c.op = "saveValue" /\ c.type = type
SameSlot(c1, c2) == c1.table = c2.table /\ c1.value.id = c2.value.id

\* C6: two consecutive saveValue calls of type 'add' with the same key on the
\* same table, the first of which the engine answered with success: the first
\* invoked onSuccess, the second's request fails and invokes onError only, and
\* the record under the key is still the first call's value.
C6_AddTwiceKeepsFirst ==
  [][\A j \in DOMAIN calls :
       (/\ j > 1
        /\ IsSave(calls[j - 1], "add") /\ IsSave(calls[j], "add")
        /\ SameSlot(calls[j - 1], calls[j])
        /\ calls[j - 1].notified = "success"
        /\ Answered(j)) =>
         LET recs == stores'[calls[j].table].records
         IN /\ calls[j - 1].cbs = <<"onSuccess">>
            /\ calls'[j].notified = "error"
            /\ calls'[j].cbs = <<"onError">>
            /\ calls[j - 1].value \in recs
            /\ \A r \in recs : r.id = calls[j].value.id => r = calls[j - 1].value]_vars

C6_Witness ==
  /\ Len(calls) >= 2
  /\ IsSave(calls[1], "add") /\ calls[1].value = Value(1, 1)
  /\ IsSave(calls[2], "add") /\ calls[2].value = Value(1, 2)
  /\ calls[1].cbs = <<"onSuccess">>
  /\ calls[2].notified = "error" /\ ~calls[2].fault
  /\ calls[2].cbs = <<"onError">>
  /\ stores["memo"].records = {Value(1, 1)}

C9_LastValueIsGreatestIndex ==
  [][\A j \in DOMAIN calls :
       (calls[j].op = "getLastValueFromTable" /\ Answered(j) /\ ~calls'[j].fault) =>
         LET recs == stores[calls[j].table].records
             p == calls'[j].promise
         IN /\ p.state = "resolved"
            /\ IF recs = {} THEN p.val = UndefRec
               ELSE p.val \in recs /\ \A q \in recs : q.id <= p.val.id
            /\ (\A i \in 1..(j - 1) : calls[i].op = "saveValue") =>
                 \A i \in 1..(j - 1) :
                   (calls[i].table = calls[j].table /\ calls[i].notified = "success")
                     => calls[i].value.id <= p.val.id]_vars

C9_Witness ==
  /\ Len(calls) = 3
  /\ IsSave(calls[1], "add") /\ calls[1].value = Value(2, 1)
  /\ IsSave(calls[2], "add") /\ calls[2].value = Value(1, 2)
  /\ calls[1].notified = "success" /\ calls[2].notified = "success"
  /\ calls[3].op = "getLastValueFromTable"
  /\ calls[3].promise = Resolved(Value(2, 1))

\* C10: a createTable call made right after a createTable call with the same
\* name that returned, both on a handle: the second call mutates nothing (the
\* stores are unchanged, it only asks whether the name exists), throws nothing
\* and returns nothing, and the schema holds that one table with its one
\* unique index.
C10_CreateTableIdempotent ==
  [][(/\ Len(calls) >= 1
      /\ Len(calls') = Len(calls) + 1
      /\ calls[Len(calls)].op = "createTable"
      /\ calls'[Len(calls')].op = "createTable"
      /\ calls'[Len(calls')].table = calls[Len(calls)].table
      /\ EffectiveDb(calls[Len(calls)]) # NULL
      /\ EffectiveDb(calls'[Len(calls')]) # NULL
      /\ calls[Len(calls)].thrown = NoErr) =>
       LET c == calls'[Len(calls')]
       IN /\ stores' = stores
          /\ c.thrown = NoErr
          /\ c.ret = UNDEFINED
          /\ c.eng = <<"objectStoreNames.contains">>
          /\ c.table \in DOMAIN stores'
          /\ stores'[c.table].keyPath = IndexingMemo
          /\ stores'[c.table].indexes =
               {[name |-> IndexingMemo, keyPath |-> IndexingMemo, unique |-> TRUE]}]_vars

C10_Witness ==
  /\ Len(calls) = 2
  /\ calls[1].op = "createTable" /\ calls[1].ret = "objectStore"
  /\ calls[1].eng = <<"objectStoreNames.contains", "createObjectStore", "createIndex">>
  /\ calls[2].op = "createTable" /\ calls[2].table = calls[1].table
  /\ calls[2].eng = <<"objectStoreNames.contains">>
  /\ calls[2].thrown = NoErr /\ calls[2].ret = UNDEFINED
  /\ DOMAIN stores = {calls[1].table}

\* ------------------------------------------ the setup of a record operation
Reads == {"getValue", "getLastValueFromTable"}
Writes == {"saveValue", "deleteValue"}

\* this step is a call of the layer; NewestCall is the record it appended
IsCall == Len(calls') = Len(calls) + 1
NewestCall == calls'[Len(calls')]

\* what the engine answers, in the current state, to each engine call the
\* operation makes on the way to its request, in the order of the source
SetupOutcomes(c) ==
  CASE c.op = "getValue" ->
         <<EngineTransaction(c.table), EngineObjectStore(c.table),
           EngineKeyRequest(c.key)>>
    [] c.op = "getLastValueFromTable" ->
         <<EngineTransaction(c.table), EngineObjectStore(c.table),
           EngineIndex(c.table, c.index), EngineOpenCursor>>
    [] c.op = "saveValue" ->
         <<EngineTransaction(c.table), EngineObjectStore(c.table),
           EngineValueRequest(c.value, c.key)>>
    [] c.op = "deleteValue" ->
         <<EngineTransaction(c.table), EngineObjectStore(c.table),
           EngineKeyRequest(c.key)>>

\* the position of the first engine call that throws, 0 when none does
FirstFailure(outs) ==
  LET F == {i \in DOMAIN outs : outs[i].kind = "throw"}
  IN IF F = {} THEN 0 ELSE CHOOSE i \in F : \A j \in F : i <= j

SetupFails(c) == FirstFailure(SetupOutcomes(c)) # 0
SetupError(c) == SetupOutcomes(c)[FirstFailure(SetupOutcomes(c))].err

\* C11: a getValue or getLastValueFromTable call on a handle whose setup throws
\* synchronously (at the transaction, table, index or cursor stage, or when the
\* request is issued) returns a result rejected with the envelope
\* {reason: 'uncaught error', err}, err being the error object that was thrown;
\* nothing is thrown to the caller, no request is issued, and the result stays
\* rejected, so it is never resolved.
C11_ReadSetupThrowRejectsWithEnvelope ==
  [][/\ (IsCall /\ NewestCall.op \in Reads /\ Truthy(NewestCall.h)
          /\ SetupFails(NewestCall)) =>
            /\ NewestCall.promise.state = "rejected"
            /\ NewestCall.promise.wrap = "uncaught error"
            /\ NewestCall.promise.err.id = SetupError(NewestCall).id
            /\ NewestCall.thrown = NoErr
            /\ NewestCall.req = "none"
     /\ \A i \in DOMAIN calls :
          (calls[i].op \in Reads /\ calls[i].promise.wrap = "uncaught error") =>
            calls'[i].promise = calls[i].promise]_vars

\* a getLastValueFromTable call whose index does not exist, then a step later
C11_Witness ==
  /\ Len(calls) = 1
  /\ calls[1].op = "getLastValueFromTable" /\ calls[1].index = "other"
  /\ calls[1].h # NULL
  /\ calls[1].eng = <<"transaction.readonly", "objectStore", "index">>
  /\ calls[1].promise = Rejected("uncaught error",
                                 [id |-> "NotFoundError", name |-> "indexError"])
  /\ calls[1].thrown = NoErr
  /\ upgrading # NULL

\* C12: a saveValue or deleteValue call on a handle whose setup throws
\* synchronously (at the transaction or table stage, or when the request is
\* issued) catches the error and only logs it: nothing is thrown to the caller,
\* no request is issued, and neither onSuccess nor onError is invoked, then or
\* at any later time.
C12_WriteSetupThrowLoggedOnly ==
  [][/\ (IsCall /\ NewestCall.op \in Writes /\ Truthy(NewestCall.h)
          /\ SetupFails(NewestCall)) =>
            /\ NewestCall.thrown = NoErr
            /\ NewestCall.ret = UNDEFINED
            /\ NewestCall.req = "none"
            /\ pending' = pending
            /\ NewestCall.cbs = << >>
            /\ NewestCall.console # << >>
            /\ NewestCall.console[Len(NewestCall.console)] =
                 [level |-> "log", msg |-> "uncaught error",
                  err |-> SetupError(NewestCall).id]
     /\ \A i \in DOMAIN calls :
          (calls[i].op \in Writes /\ calls[i].req = "none") =>
            calls'[i].cbs = << >>]_vars

\* a saveValue call with both callbacks and a key argument the store rejects
C12_Witness ==
  /\ Len(calls) = 1
  /\ calls[1].op = "saveValue" /\ calls[1].key = 1
  /\ calls[1].cb = {"onSuccess", "onError"}
  /\ calls[1].eng = <<"transaction.readwrite", "objectStore", calls[1].type>>
  /\ calls[1].console =
       <<[level |-> "error", msg |-> "createError", err |-> "DataError"],
         [level |-> "log", msg |-> "uncaught error", err |-> "DataError"]>>
  /\ calls[1].cbs = << >> /\ calls[1].thrown = NoErr
  /\ atom = NULL

\* the error the engine throws, in the current state, during the synchronous
\* part of call c; NoErr when it throws none
SyncEngineError(c) ==
  CASE c.op = "createTable" ->
         IF Truthy(EffectiveDb(c)) /\ c.table \notin DOMAIN stores
         THEN EngineCreateObjectStore(EffectiveDb(c), c.table).err ELSE NoErr
    [] c.op = "deleteTable" ->
         IF c.h # NULL THEN EngineDeleteObjectStore(c.h, c.table).err ELSE NoErr
    [] c.op \in Reads \cup Writes ->
         IF Truthy(c.h) /\ SetupFails(c) THEN SetupError(c) ELSE NoErr
    [] OTHER -> NoErr

\* the error of the notification that answers call i's request in this step
NotifiedError(i) ==
  IF calls'[i].fault THEN EngineFault(calls[i]).error
  ELSE EngineProcess(calls[i]).error

\* the error objects handed to the caller's callbacks: onSuccess and onError
\* are invoked without arguments
CallbackArguments(c) == {}

\* the error object reached the caller: thrown to it, carried by the rejection
\* of its result, or handed to one of its callbacks
Carried(c, e) ==
  \/ c.thrown.id = e.id
  \/ c.promise.state = "rejected" /\ c.promise.err.id = e.id
  \/ e.id \in CallbackArguments(c)

\* C13 as stated: every error object the engine produces for a call, thrown
\* during its synchronous part or delivered by a request error notification, is
\* re-thrown, carried by the rejection, or handed to a caller callback.
\* saveValue and deleteValue (both paths) and getLastValueFromTable (error
\* notification) refute it.
C13_EngineErrorNeverDiscarded ==
  [][/\ (IsCall /\ SyncEngineError(NewestCall) # NoErr) =>
            Carried(NewestCall, SyncEngineError(NewestCall))
     /\ \A i \in DOMAIN calls :
          (Answered(i) /\ calls'[i].notified = "error") =>
            Carried(calls'[i], NotifiedError(i))]_vars

\* C13 amended: an engine error thrown during the synchronous part of a call is
\* re-thrown by createTable and deleteTable, carried by the rejection envelope
\* of getValue and getLastValueFromTable, and only logged by saveValue and
\* deleteValue; an engine error delivered by a request error notification is
\* carried by getValue's rejection, whereas getLastValueFromTable rejects with a
\* fixed failure and saveValue / deleteValue invoke onError, when supplied,
\* without it.
C13_EngineErrorHandedOnOrLogged ==
  [][/\ (IsCall /\ SyncEngineError(NewestCall) # NoErr) =>
          LET c == NewestCall
              e == SyncEngineError(NewestCall)
          IN CASE c.op \in {"createTable", "deleteTable"} ->
                    c.thrown = e /\ c.promise = NoPromise
               [] c.op \in Reads ->
                    /\ c.thrown = NoErr
                    /\ c.promise.state = "rejected" /\ c.promise.err.id = e.id
               [] c.op \in Writes ->
                    /\ ~Carried(c, e)
                    /\ \E k \in DOMAIN c.console :
                         c.console[k].level = "log" /\ c.console[k].err = e.id
     /\ \A i \in DOMAIN calls :
          (Answered(i) /\ calls'[i].notified = "error") =>
            LET c == calls'[i]
                e == NotifiedError(i)
            IN CASE c.op = "getValue" -> c.promise = Rejected("none", e)
                 [] c.op = "getLastValueFromTable" ->
                      c.promise = Rejected("none", CursorFailure) /\ ~Carried(c, e)
                 [] c.op \in Writes ->
                      /\ ~Carried(c, e)
                      /\ c.cbs = IF "onError" \in c.cb THEN <<"onError">> ELSE << >>
                      /\ \A k \in DOMAIN c.console : c.console[k].err # e.id]_vars

\* the engine failed a saveValue request: onError was invoked, and the engine's
\* error is nowhere in what the caller received
C13_Witness ==
  /\ Len(calls) = 1
  /\ calls[1].op = "saveValue" /\ calls[1].cb = {"onSuccess", "onError"}
  /\ calls[1].notified = "error" /\ calls[1].fault
  /\ calls[1].cbs = <<"onError">>
  /\ ~Carried(calls[1], DOMException("UnknownError"))
  /\ calls[1].console[Len(calls[1].console)] =
       Console("error", "no suffient space to save data")

\* the engine calls of an operation in the order the claim fixes: transaction,
\* table, [index], [cursor], request
AcquisitionOrder(c) ==
  CASE c.op = "getValue" -> <<"transaction.readonly", "objectStore", "get">>
    [] c.op = "getLastValueFromTable" ->
         <<"transaction.readonly", "objectStore", "index", "openCursor.prev">>
    [] c.op = "saveValue" -> <<"transaction.readwrite", "objectStore", c.type>>
    [] c.op = "deleteValue" -> <<"transaction.readwrite", "objectStore", "delete">>

\* C14: a record operation called on a handle makes its engine calls in the
\* order transaction, table, [index], [cursor], request, and stops at the first
\* one that throws: the calls it made are the fixed order up to and including
\* the failing step, nothing after it, and a request reaches the engine only
\* when no step threw.
C14_AcquisitionOrderShortCircuits ==
  [][(IsCall /\ NewestCall.op \in Reads \cup Writes /\ Truthy(NewestCall.h)) =>
       LET c == NewestCall
           order == AcquisitionOrder(NewestCall)
           f == FirstFailure(SetupOutcomes(NewestCall))
       IN IF f = 0
          THEN /\ c.eng = order
               /\ c.req = order[Len(order)]
               /\ pending' = Append(pending, Len(calls'))
          ELSE /\ c.eng = SubSeq(order, 1, f)
               /\ c.req = "none"
               /\ pending' = pending]_vars

\* a transaction that cannot be opened (the table does not exist): no table is
\* acquired after it and no request is issued
C14_Witness ==
  /\ Len(calls) = 1
  /\ calls[1].op = "saveValue" /\ calls[1].h # NULL
  /\ calls[1].table \notin DOMAIN stores
  /\ calls[1].eng = <<"transaction.readwrite">>
  /\ calls[1].console[1] =
       [level |-> "error", msg |-> "transactionError", err |-> "NotFoundError"]
  /\ calls[1].req = "none" /\ pending = << >>

\* C15: every operation acts on the handle the state container holds at the
\* moment the operation is invoked. The operations are closures over the handle
\* the hook read when it last rendered (line 103): a call made after the
\* container changed and before the hook rendered again refutes it.
C15_ActsOnCurrentHandle ==
  [][IsCall => NewestCall.h = atom]_vars

\* C16: when the engine answers a read request with an error notification, the
\* result is rejected, with the request's own error for getValue and with the
\* fixed failure 'Failed to retrieve last value from object store' for
\* getLastValueFromTable, and it stays so: it is never resolved.
C16_ReadErrorNotificationRejects ==
  [][\A i \in DOMAIN calls :
       /\ (calls[i].op \in Reads /\ Answered(i) /\ calls'[i].notified = "error") =>
            calls'[i].promise =
              IF calls[i].op = "getValue" THEN Rejected("none", NotifiedError(i))
              ELSE Rejected("none", CursorFailure)
       /\ (calls[i].op \in Reads /\ calls[i].notified = "error") =>
            /\ calls[i].promise.state = "rejected"
            /\ calls'[i].promise = calls[i].promise]_vars

\* both read operations answered with an error notification, then another call
C16_Witness ==
  /\ Len(calls) = 3
  /\ calls[1].op = "getValue" /\ calls[1].notified = "error"
  /\ calls[1].promise = Rejected("none", DOMException("UnknownError"))
  /\ calls[2].op = "getLastValueFromTable" /\ calls[2].notified = "error"
  /\ calls[2].promise = Rejected("none", CursorFailure)
  /\ calls[3].op = "getValue" /\ calls[3].notified = "success"

\* C17: when the engine answers, without a failure of its own, the cursor
\* request of a getLastValueFromTable call on a table and index that hold no
\* records, the result is resolved with undefined, not rejected; the callback
\* makes no engine call (it does not advance the cursor), stores nothing, and
\* that first notification is the only one the call ever consults.
C17_LastValueOfEmptyTableIsUndefined ==
  [][\A i \in DOMAIN calls :
       /\ (/\ calls[i].op = "getLastValueFromTable"
           /\ Answered(i) /\ ~calls'[i].fault
           /\ stores[calls[i].table].records = {}) =>
            /\ calls'[i].notified = "success"
            /\ calls'[i].promise = Resolved(UndefRec)
            /\ calls'[i].eng = calls[i].eng
            /\ \A k \in DOMAIN pending' : pending'[k] # i
            /\ stores' = stores
       /\ (calls[i].op = "getLastValueFromTable" /\ calls[i].notified # "none") =>
            calls'[i] = calls[i]]_vars

\* an add whose request the engine failed left the table empty; the cursor
\* request that follows is answered with no position
C17_Witness ==
  /\ Len(calls) = 2
  /\ calls[1].op = "saveValue" /\ calls[1].fault
  /\ calls[2].op = "getLastValueFromTable" /\ calls[2].index = IndexingMemo
  /\ calls[2].eng = <<"transaction.readonly", "objectStore", "index", "openCursor.prev">>
  /\ calls[2].notified = "success"
  /\ calls[2].promise = Resolved(UndefRec)
  /\ stores[calls[2].table].records = {}
  /\ pending = << >>

\* C18: outcomes are delivered exactly once and exclusively. A read's result,
\* once resolved or rejected, never changes. A saveValue or deleteValue call
\* whose request was issued (both callbacks supplied) has invoked no callback
\* before the engine answers, invokes exactly the one callback of the answer's
\* channel when it does, and nothing after; its request is issued once and is
\* never issued again.
C18_OutcomeDeliveredExactlyOnce ==
  [][\A i \in DOMAIN calls :
       /\ (calls[i].op \in Reads /\ calls[i].promise.state \in {"resolved", "rejected"}) =>
            calls'[i].promise = calls[i].promise
       /\ (calls[i].op \in Writes /\ calls[i].req # "none"
           /\ calls[i].cb = {"onSuccess", "onError"}) =>
            /\ calls[i].notified = "none" => calls[i].cbs = << >>
            /\ Answered(i) =>
                 calls'[i].cbs = IF calls'[i].notified = "success"
                                 THEN <<"onSuccess">> ELSE <<"onError">>
            /\ calls[i].notified # "none" =>
                 Len(calls[i].cbs) = 1 /\ calls'[i].cbs = calls[i].cbs
            /\ calls'[i].eng = calls[i].eng
            /\ Cardinality({k \in DOMAIN calls[i].eng :
                             calls[i].eng[k] \in {"add", "put", "delete"}}) = 1
            /\ Cardinality({k \in DOMAIN pending : pending[k] = i}) =
                 IF calls[i].notified = "none" THEN 1 ELSE 0]_vars

\* a put answered with success, a delete failed by the engine, a read resolved,
\* each delivered once
C18_Witness ==
  /\ Len(calls) = 3
  /\ IsSave(calls[1], "put") /\ calls[1].notified = "success"
  /\ calls[1].cbs = <<"onSuccess">>
  /\ calls[2].op = "deleteValue" /\ calls[2].notified = "error"
  /\ calls[2].cbs = <<"onError">>
  /\ calls[3].op = "getValue" /\ calls[3].key = calls[1].value.id
  /\ calls[3].promise = Resolved(calls[1].value)
  /\ pending = << >>

\* ---------------------------------------------------------------- progress
\* the engine answers the request of call i, with success or with an error
Answer(i) ==
  \E k \in DOMAIN pending : pending[k] = i /\ (Notify(k) \/ NotifyFault(k))

\* SpecRead under the assumption that the engine eventually answers every
\* request it was issued
SpecReadFair == SpecRead /\ \A i \in 1..MaxReadCalls : WF_vars(Answer(i))

\* C19: provided the engine eventually answers every issued request, every
\* getValue and getLastValueFromTable call eventually has its result resolved
\* or rejected: with no handle, when its setup throws, and when its request was
\* issued.
C19_ReadsEventuallySettle ==
  \A i \in 1..MaxReadCalls :
    (i \in DOMAIN calls /\ calls[i].op \in Reads)
      ~> (i \in DOMAIN calls /\ calls[i].promise.state \in {"resolved", "rejected"})

\* a cursor request that was issued and that the engine has answered
C19_Witness ==
  /\ Len(calls) = 1
  /\ calls[1].op = "getLastValueFromTable" /\ calls[1].req = "openCursor.prev"
  /\ calls[1].notified # "none"
  /\ calls[1].promise.state \in {"resolved", "rejected"}
  /\ stores[calls[1].table].records = Persisted
  /\ pending = << >>

\* the engine calls that change records or schema, or open the way to it
MutatingApis ==
  {"transaction.readwrite", "add", "put", "delete", "createObjectStore",
   "createIndex", "deleteObjectStore", "deleteDatabase"}

\* C20: getValue and getLastValueFromTable leave the stored records and the
\* schema unchanged, when they are called (with no handle, with a setup that
\* throws, with a request issued) and when their request is answered (success
\* or error). A call on a handle begins exactly one transaction, read-only, as
\* its first engine call; a call with no handle begins none; no call issues an
\* add, put or delete.
C20_ReadsLeaveStoreUnchanged ==
  [][/\ (IsCall /\ NewestCall.op \in Reads) =>
          LET c == NewestCall
              begun == {k \in DOMAIN c.eng :
                          c.eng[k] \in {"transaction.readonly", "transaction.readwrite"}}
          IN /\ stores' = stores
             /\ \A k \in DOMAIN c.eng : c.eng[k] \notin MutatingApis
             /\ c.req \in {"none", "get", "openCursor.prev"}
             /\ IF Truthy(c.h)
                THEN begun = {1} /\ c.eng[1] = "transaction.readonly"
                ELSE c.eng = << >>
     /\ \A i \in DOMAIN calls :
          (calls[i].op \in Reads /\ Answered(i)) =>
            /\ stores' = stores
            /\ calls'[i].eng = calls[i].eng]_vars

\* a getValue of a stored key, answered: the records are those that were there
C20_Witness ==
  /\ Len(calls) = 1
  /\ calls[1].op = "getValue" /\ calls[1].key = 1
  /\ calls[1].eng = <<"transaction.readonly", "objectStore", "get">>
  /\ calls[1].notified = "success"
  /\ calls[1].promise = Resolved(Value(1, NoData))
  /\ stores[calls[1].table].records = Persisted
====
